---- MODULE Spec2Model ----
(***************************************************************************)
(* State-machine model of marian's ExpressionGraph and Expr                *)
(* (src/expression_graph.h).                                               *)
(*                                                                         *)
(* A node is identified by its position in the graph's ordered collection  *)
(* (stack_); an Expr handle is that position.  Tensors are modelled by     *)
(* integers.  Every member function is one action; the loops of           *)
(* forward(), backward() and backprop() are recursive operators that       *)
(* issue the per-node calls in the order the code does, and the calls      *)
(* issued by the most recent member call are recorded in log.  The bodies  *)
(* of the node variants live outside expression_graph.h and follow the     *)
(* per-node capability contract.                                           *)
(***************************************************************************)
EXTENDS Integers, Sequences, FiniteSets

MaxNodes == 3
MaxVal == 2
MaxRounds == 2

Vals == 1..MaxVal
BatchSizes == {1, 2}
Names == {"w", "v"}
OpKinds == {"add", "mul"}

VARIABLES
    stack,      \* stack_: ordered collection of nodes, construction order
    named,      \* named_: set of <<name, handle>> bindings
    params,     \* params_: handles in declaration order
    inputs,     \* inputs_: handles in declaration order
    pc,         \* "idle" between calls, "crashed" once the process died
    call,       \* the most recent member call and its arguments
    ret,        \* what that call returned or threw
    log,        \* per-node calls issued by that call, in order
    fresh,      \* a forward pass completed and nothing changed since
    rounds,     \* consecutive completed forward-then-backward rounds
    firstAdj,   \* adjoints as they were after the first of those rounds
    grown       \* a node was appended to a graph that had just been evaluated

vars == <<stack, named, params, inputs, pc, call, ret, log, fresh, rounds, firstAdj,
          grown>>

graphVars == <<stack, named, params, inputs>>

-----------------------------------------------------------------------------
(* Per-node capability contract *)

Adjoints(s) == [i \in 1..Len(s) |-> s[i].adj]

NewNode(kind, deps, v) ==
    [kind |-> kind, deps |-> deps, val |-> v, adj |-> 0, alloc |-> 0]

IsOp(n) == n.kind \in OpKinds

\* allocate(batchSize): size the node's storage for the batch extent
Allocate(s, i, b) == [s EXCEPT ![i].alloc = b]

\* value of an operator node from its dependencies' current values
OpValue(s, i) ==
    LET a == s[s[i].deps[1]].val
        b == s[s[i].deps[2]].val
    IN IF s[i].kind = "add" THEN a + b ELSE a * b

\* forward(): no-op for Input/Parameter/Constant, recompute for operators
NodeForward(s, i) ==
    IF IsOp(s[i]) THEN [s EXCEPT ![i].val = OpValue(s, i)] ELSE s

\* local partial derivative of node c with respect to its k-th dependency
Partial(s, c, k) ==
    IF s[c].kind = "add" THEN 1 ELSE s[s[c].deps[3 - k]].val

\* this node's contribution to its k-th dependency
Contribution(s, c, k) == Partial(s, c, k) * s[c].adj

\* backward(): add local partial times own adjoint into each dependency
NodeBackward(s, i) ==
    IF IsOp(s[i])
    THEN LET d1 == s[i].deps[1]
             d2 == s[i].deps[2]
             s1 == [s EXCEPT ![d1].adj = @ + Contribution(s, i, 1)]
         IN [s1 EXCEPT ![d2].adj = @ + Contribution(s, i, 2)]
    ELSE s

\* set_zero_adjoint(): reset the accumulator to the additive identity
SetZeroAdjoint(s, i) == [s EXCEPT ![i].adj = 0]

\* init_dependent(): seed with the multiplicative identity
InitDependent(s, i) == [s EXCEPT ![i].adj = 1]

\* a per-node call: the function, the node it is invoked on, and what it is
\* given (the batch extent for allocate, the node's own adjoint for backward)
Entry(f, i, x) == [f |-> f, n |-> i, x |-> x]

-----------------------------------------------------------------------------
(* Call and result records *)

Call(op, name, node, arg) == [op |-> op, name |-> name, node |-> node, arg |-> arg]
Ret(node, flag, err) == [node |-> node, flag |-> flag, err |-> err]

NoCall == Call("none", "", 0, 0)
Void == Ret(0, FALSE, "")

Init ==
    /\ stack = <<>>
    /\ named = {}
    /\ params = <<>>
    /\ inputs = <<>>
    /\ pc = "idle"
    /\ call = NoCall
    /\ ret = Void
    /\ log = <<>>
    /\ fresh = FALSE
    /\ rounds = 0
    /\ firstAdj = <<>>
    /\ grown = FALSE

\* any change to the graph or to a value ends the current run of rounds
Changed ==
    /\ fresh' = FALSE
    /\ rounds' = 0
    /\ firstAdj' = <<>>

Keep == UNCHANGED <<fresh, rounds, firstAdj, grown>>

\* appending to a graph whose last completed call closed a round
Grows == grown' = (grown \/ rounds >= 1)

-----------------------------------------------------------------------------
(* Node construction *)

\* variant: the new node goes to the front
NewExprFront(s, node) == <<node>> \o s

\* Expr(graph, chainable): the new node goes to the end of the graph's stack
NewExpr(s, node) == Append(s, node)

Handle(s) == Len(s)

CanBuild == pc = "idle" /\ Len(stack) < MaxNodes

Built(op, v) ==
    /\ call' = Call(op, "", 0, v)
    /\ ret' = Ret(Handle(stack'), FALSE, "")
    /\ log' = <<>>
    /\ UNCHANGED <<named, pc>>
    /\ Changed
    /\ Grows

input(v) ==
    /\ CanBuild
    /\ stack' = NewExpr(stack, NewNode("input", <<>>, v))
    /\ inputs' = Append(inputs, Handle(stack'))
    /\ UNCHANGED params
    /\ Built("input", v)

\* variant: the handle goes to the input list instead
paramListedAsInput(v) ==
    /\ CanBuild
    /\ stack' = NewExpr(stack, NewNode("param", <<>>, v))
    /\ inputs' = Append(inputs, Handle(stack'))
    /\ UNCHANGED params
    /\ Built("param", v)

param(v) ==
    /\ CanBuild
    /\ stack' = NewExpr(stack, NewNode("param", <<>>, v))
    /\ params' = Append(params, Handle(stack'))
    /\ UNCHANGED inputs
    /\ Built("param", v)

constant(v) ==
    /\ CanBuild
    /\ stack' = NewExpr(stack, NewNode("constant", <<>>, v))
    /\ UNCHANGED <<params, inputs>>
    /\ Built("constant", v)

ones ==
    /\ CanBuild
    /\ stack' = NewExpr(stack, NewNode("constant", <<>>, 1))
    /\ UNCHANGED <<params, inputs>>
    /\ Built("ones", 1)

zeroes ==
    /\ CanBuild
    /\ stack' = NewExpr(stack, NewNode("constant", <<>>, 0))
    /\ UNCHANGED <<params, inputs>>
    /\ Built("zeroes", 0)

\* an operator node built by the caller from two existing handles
operator(kind, d1, d2) ==
    /\ CanBuild
    /\ stack' = NewExpr(stack, NewNode(kind, <<d1, d2>>, 0))
    /\ call' = Call(kind, "", d1, d2)
    /\ ret' = Ret(Handle(stack'), FALSE, "")
    /\ log' = <<>>
    /\ UNCHANGED <<named, params, inputs, pc>>
    /\ Changed
    /\ Grows

\* setVal(t) on the node behind a handle
SetVal(s, h, t) == [s EXCEPT ![h].val = t]

\* variant: the gradient of the node is reset as well
assignClearingAdjoint(h, t) ==
    /\ pc = "idle"
    /\ stack' = [SetVal(stack, h, t) EXCEPT ![h].adj = 0]
    /\ call' = Call("assign", "", h, t)
    /\ ret' = Ret(h, FALSE, "")
    /\ log' = <<>>
    /\ UNCHANGED <<named, params, inputs, pc, grown>>
    /\ Changed

\* Expr::operator=(Tensor)
assign(h, t) ==
    /\ pc = "idle"
    /\ stack' = SetVal(stack, h, t)
    /\ call' = Call("assign", "", h, t)
    /\ ret' = Ret(h, FALSE, "")
    /\ log' = <<>>
    /\ UNCHANGED <<named, params, inputs, pc, grown>>
    /\ Changed

-----------------------------------------------------------------------------
(* Named-node registry: std::map<std::string, Expr> *)

\* named_.find(name)
Find(m, name) == {p \in m : p[1] = name}

\* variant: std::map::operator[] inserts a default handle under an absent key
AfterSubscript(m, name) ==
    IF \E p \in m : p[1] = name THEN m ELSE m \cup {<<name, 0>>}

\* find() leaves the map as it is
AfterFind(m, name) == m

\* named_.count(name)
Count(m, name) == Cardinality(Find(m, name))

\* variant: the insertion is lost
EmplaceDropped(m, name, e) == m

\* variant: multimap-like, a second binding is stored beside the first
EmplaceAlias(m, name, e) == m \cup {<<name, e>>}

\* variant: insert_or_assign, the later registration replaces the earlier one
EmplaceOverwrite(m, name, e) == {p \in m : p[1] # name} \cup {<<name, e>>}

\* named_.emplace(name, e): inserts only if the key is absent
Emplace(m, name, e) ==
    IF Find(m, name) = {} THEN m \cup {<<name, e>>} ELSE m

add_named_node(e, name) ==
    /\ pc = "idle"
    /\ named' = Emplace(named, name, e)
    /\ call' = Call("add_named_node", name, e, 0)
    /\ ret' = Ret(0, ~\E p \in named : p[1] = name, "")  \* flag: name was free
    /\ log' = <<>>
    /\ UNCHANGED <<stack, params, inputs, pc>>
    /\ Keep

\* operator[](name)
lookup(name) ==
    /\ pc = "idle"
    /\ named' = AfterFind(named, name)
    /\ call' = Call("lookup", name, 0, 0)
    /\ LET it == Find(named, name)
       IN IF it = {}
          THEN ret' = Ret(0, FALSE, "NameNotFound")
          ELSE ret' = Ret((CHOOSE p \in it : TRUE)[2], TRUE, "")
    /\ log' = <<>>
    /\ UNCHANGED <<stack, params, inputs, pc>>
    /\ Keep

has_node(name) ==
    /\ pc = "idle"
    /\ call' = Call("has_node", name, 0, 0)
    /\ ret' = Ret(0, Count(named, name) > 0, "")
    /\ log' = <<>>
    /\ UNCHANGED <<stack, named, params, inputs, pc>>
    /\ Keep

-----------------------------------------------------------------------------
(* forward(batchSize), backward(), backprop(batchSize) *)

\* a traversal in progress: the nodes, the calls issued so far, the exception
Run(s, l, err) == [s |-> s, log |-> l, err |-> err]

\* variants: a loop running the other way, starting one node late, or
\* stuck on one node; a seed put on the front node
AllocTargetReversed(s, k) == Len(s) + 1 - k

ForwardTargetReversed(s, k) == Len(s) + 1 - k

ZeroTargetSkipFirst(s, k) == IF k < Len(s) THEN k + 1 ELSE k

ZeroTargetFirstOnly(s, k) == 1

SeedTargetFront(s) == 1

BackwardTargetForward(s, k) == k

\* node visited by the k-th iteration of each loop over *stack_
AllocTarget(s, k) == k

ForwardTarget(s, k) == k

ZeroTarget(s, k) == k

\* stack_->back()
SeedTarget(s) == Len(s)

\* k-th node from stack_->rbegin()
BackwardTarget(s, k) == Len(s) + 1 - k

\* variant: the loop goes on after the throwing allocate() and fails at its end
RECURSIVE AllocLoopResuming(_, _, _, _)
AllocLoopResuming(g, b, k, failAt) ==
    IF k > Len(g.s) THEN Run(g.s, g.log, IF failAt \in 1..Len(g.s)
                                         THEN "AllocationFailure" ELSE "")
    ELSE LET l == Append(g.log, Entry("allocate", k, b))
         IN AllocLoopResuming(Run(IF k = failAt THEN g.s ELSE Allocate(g.s, k, b), l, ""),
                              b, k + 1, failAt)

\* for(auto&& v : *stack_) v->allocate(batchSize);
\* failAt is the iteration whose allocate() throws (0: none does)
RECURSIVE AllocLoop(_, _, _, _)
AllocLoop(g, b, k, failAt) ==
    IF k > Len(g.s) THEN g
    ELSE LET i == AllocTarget(g.s, k)
             l == Append(g.log, Entry("allocate", i, b))
         IN IF k = failAt
            THEN Run(g.s, l, "AllocationFailure")
            ELSE AllocLoop(Run(Allocate(g.s, i, b), l, ""), b, k + 1, failAt)

\* for(auto&& v : *stack_) v->forward();
RECURSIVE ForwardLoop(_, _)
ForwardLoop(g, k) ==
    IF k > Len(g.s) THEN g
    ELSE LET i == ForwardTarget(g.s, k)
         IN ForwardLoop(Run(NodeForward(g.s, i),
                            Append(g.log, Entry("forward", i, 0)), ""), k + 1)

\* variant: no adjoint is reset
ZeroLoopSkipped(g, k) == g

\* for(auto&& v : *stack_) v->set_zero_adjoint();
RECURSIVE ZeroLoop(_, _)
ZeroLoop(g, k) ==
    IF k > Len(g.s) THEN g
    ELSE LET i == ZeroTarget(g.s, k)
         IN ZeroLoop(Run(SetZeroAdjoint(g.s, i),
                         Append(g.log, Entry("set_zero_adjoint", i, 0)), ""), k + 1)

\* variant: no node is seeded
SeedSkipped(g, dies) == g

\* stack_->back()->init_dependent();  back() of an empty vector is undefined:
\* the call lands on no node, and the process either dies or carries on
Seed(g, dies) ==
    LET i == SeedTarget(g.s)
        l == Append(g.log, Entry("init_dependent", i, 0))
    IN IF i \in 1..Len(g.s)
       THEN Run(InitDependent(g.s, i), l, "")
       ELSE Run(g.s, l, IF dies THEN "crashed" ELSE "")

\* for(It it = stack_->rbegin(); it != stack_->rend(); ++it) (*it)->backward();
RECURSIVE BackwardLoop(_, _)
BackwardLoop(g, k) ==
    IF k > Len(g.s) THEN g
    ELSE LET i == BackwardTarget(g.s, k)
         IN BackwardLoop(Run(NodeBackward(g.s, i),
                             Append(g.log, Entry("backward", i, g.s[i].adj)), ""),
                         k + 1)

\* variant: the second loop is left out
RunForwardAllocateOnly(g, b, failAt) == AllocLoop(g, b, 1, failAt)

\* the two loops of forward(batchSize)
RunForward(g, b, failAt) ==
    LET a == AllocLoop(g, b, 1, failAt)
    IN IF a.err # "" THEN a ELSE ForwardLoop(a, 1)

\* variant: the last node is seeded after the reverse loop
RunBackwardSeedLast(g, dies) == Seed(BackwardLoop(ZeroLoop(g, 1), 1), dies)

\* the zeroing loop, the seed and the reverse loop of backward()
RunBackward(g, dies) ==
    LET z == Seed(ZeroLoop(g, 1), dies)
    IN IF z.err # "" THEN z ELSE BackwardLoop(z, 1)

\* variant: the two halves in the other order
RunBackpropBackwardFirst(g, b, failAt, dies) ==
    LET k == RunBackward(g, dies)
    IN IF k.err # "" THEN k ELSE RunForward(k, b, failAt)

\* forward(batchSize); backward();
RunBackprop(g, b, failAt, dies) ==
    LET f == RunForward(g, b, failAt)
    IN IF f.err # "" THEN f ELSE RunBackward(f, dies)

Returned(op, b, r) ==
    /\ stack' = r.s
    /\ log' = r.log
    /\ call' = Call(op, "", 0, b)
    /\ ret' = Ret(0, FALSE, r.err)
    /\ pc' = IF r.err = "crashed" THEN "crashed" ELSE "idle"
    /\ UNCHANGED <<named, params, inputs, grown>>

\* a completed backward pass closes a round if the values were current
RoundClosed(wasFresh) ==
    /\ fresh' = FALSE
    /\ rounds' = IF wasFresh
                 THEN (IF rounds < MaxRounds THEN rounds + 1 ELSE rounds)
                 ELSE 0
    /\ firstAdj' = IF ~wasFresh THEN <<>>
                   ELSE IF rounds = 0 THEN Adjoints(stack') ELSE firstAdj

forward(b, failAt) ==
    /\ pc = "idle"
    /\ \E r \in {RunForward(Run(stack, <<>>, ""), b, failAt)} :
          /\ Returned("forward", b, r)
          /\ IF r.err = ""
             THEN fresh' = TRUE /\ UNCHANGED <<rounds, firstAdj>>
             ELSE Changed

backward(dies) ==
    /\ pc = "idle"
    /\ \E r \in {RunBackward(Run(stack, <<>>, ""), dies)} :
          /\ Returned("backward", 0, r)
          /\ IF r.err = "" THEN RoundClosed(fresh) ELSE Changed

backprop(b, failAt, dies) ==
    /\ pc = "idle"
    /\ \E r \in {RunBackprop(Run(stack, <<>>, ""), b, failAt, dies)} :
          /\ Returned("backprop", b, r)
          /\ IF r.err = "" THEN RoundClosed(TRUE) ELSE Changed

-----------------------------------------------------------------------------
(* Specifications *)

Assignable(s) == {h \in 1..Len(s) : s[h].kind \in {"input", "param"}}

\* outcomes of back() on an empty vector that the build can produce
Dies(s) == IF Len(s) = 0 THEN BOOLEAN ELSE {FALSE}

BuildFrom(V) ==
    \/ \E v \in V : input(v)
    \/ \E v \in V : param(v)
    \/ \E v \in V : constant(v)
    \/ ones
    \/ zeroes
    \/ \E k \in OpKinds : \E d2 \in 1..Len(stack) : \E d1 \in 1..d2 : operator(k, d1, d2)

\* construction, value assignment and the traversals
Next ==
    \/ BuildFrom(Vals)
    \/ \E h \in Assignable(stack) : \E t \in Vals : assign(h, t)
    \/ \E b \in BatchSizes : forward(b, 0)
    \/ \E d \in Dies(stack) : backward(d)
    \/ \E b \in BatchSizes : \E d \in Dies(stack) : backprop(b, 0, d)

Spec == Init /\ [][Next]_vars

\* construction and the named-node registry
NextNames ==
    \/ BuildFrom({1})
    \/ \E e \in 1..Len(stack) : \E name \in Names : add_named_node(e, name)
    \/ \E name \in Names : lookup(name)
    \/ \E name \in Names : has_node(name)

SpecNames == Init /\ [][NextNames]_vars

\* every member function, with allocate() free to throw at any node
FailPoints(s) == 0..Len(s)

NextAll ==
    \/ BuildFrom({1})
    \/ \E e \in 1..Len(stack) : add_named_node(e, "w")
    \/ lookup("w")
    \/ has_node("w")
    \/ \E f \in FailPoints(stack) : forward(1, f)
    \/ \E d \in Dies(stack) : backward(d)
    \/ \E f \in FailPoints(stack) : \E d \in Dies(stack) : backprop(1, f, d)

SpecAll == Init /\ [][NextAll]_vars

\* parameters, their products, and backprop(1)
ProductVals == 1..(MaxVal + 1)

NextProduct ==
    \/ \E v \in ProductVals : param(v)
    \/ \E d2 \in 1..Len(stack) : \E d1 \in 1..d2 : operator("mul", d1, d2)
    \/ \E h \in Assignable(stack) : \E t \in ProductVals : assign(h, t)
    \/ \E d \in Dies(stack) : backprop(1, 0, d)

SpecProduct == Init /\ [][NextProduct]_vars

-----------------------------------------------------------------------------
(* Properties *)

RECURSIVE SumOver(_, _)
SumOver(f, S) ==
    IF S = {} THEN 0
    ELSE LET x == CHOOSE y \in S : TRUE IN f[x] + SumOver(f, S \ {x})

N == Len(stack)

Completed(ops) == pc = "idle" /\ call.op \in ops /\ ret.err = ""

ForwardDone == Completed({"forward", "backprop"})
BackwardDone == Completed({"backward", "backprop"})

\* the calls of one kind in the log, and the nodes they were invoked on
Of(fs) == SelectSeq(log, LAMBDA e : e.f \in fs)
NodesOf(l) == [j \in 1..Len(l) |-> l[j].n]
Position(f, i) == {j \in 1..Len(log) : log[j].f = f /\ log[j].n = i}

\* <<c, k>>: node c has node p as its k-th dependency
Edges(s, p) ==
    {e \in (1..Len(s)) \X {1, 2} : IsOp(s[e[1]]) /\ s[e[1]].deps[e[2]] = p}

Consumers(s, p) == {e[1] : e \in Edges(s, p)}

\* sum over all dependency paths from node i to the last node of the product
\* of the local partials along the path
RECURSIVE PathSum(_, _)
PathSum(s, i) ==
    LET E == Edges(s, i)
    IN (IF i = Len(s) THEN 1 ELSE 0)
       + SumOver([e \in E |-> Partial(s, e[1], e[2]) * PathSum(s, e[1])], E)

\* C1: backward() on a non-empty graph calls set_zero_adjoint() on every node
\* in construction order, then init_dependent() once on the last node, then
\* backward() on every node once in strict reverse construction order
C1_BackwardCallOrder ==
    (BackwardDone /\ N > 0) =>
        LET l == Of({"set_zero_adjoint", "init_dependent", "backward"})
        IN /\ Len(l) = 2 * N + 1
           /\ \A j \in 1..N :
                 /\ l[j].f = "set_zero_adjoint" /\ l[j].n = j
                 /\ l[N + 1 + j].f = "backward" /\ l[N + 1 + j].n = N + 1 - j
           /\ l[N + 1].f = "init_dependent" /\ l[N + 1].n = N

C1_Witness ==
    /\ BackwardDone
    /\ call.op = "backward"
    /\ N = MaxNodes
    /\ IsOp(stack[N])

\* C2: in forward(batchSize) every node is allocated for this batch extent,
\* in construction order, before any node's forward() is called
C2_AllocateBeforeForward ==
    ForwardDone =>
        /\ NodesOf(Of({"allocate"})) = [j \in 1..N |-> j]
        /\ \A j \in 1..Len(log) :
              log[j].f = "forward" =>
                  \A i \in 1..N :
                      \E k \in 1..(j - 1) : log[k] = Entry("allocate", i, call.arg)
        /\ \A i \in 1..N : stack[i].alloc = call.arg

C2_Witness ==
    /\ ForwardDone
    /\ call.op = "forward"
    /\ N = MaxNodes
    /\ call.arg = 2

\* C3: during forward(b) each node's forward() is called exactly once and only
\* after the forward() of each of its dependencies, so that afterwards every
\* operator value is the operator applied to values of earlier nodes
C3_ForwardAfterDependencies ==
    ForwardDone =>
        \A i \in 1..N :
            /\ Cardinality(Position("forward", i)) = 1
            /\ IsOp(stack[i]) =>
                  /\ \A k \in 1..2 :
                        /\ stack[i].deps[k] < i
                        /\ \A j \in Position("forward", i) :
                              \E d \in Position("forward", stack[i].deps[k]) : d < j
                  /\ stack[i].val = OpValue(stack, i)

C3_Witness ==
    /\ ForwardDone
    /\ N = 3
    /\ stack[2].kind = "add" /\ stack[3].kind = "mul"
    /\ stack[3].deps = <<1, 2>>
    /\ stack[1].val = 2
    /\ stack[3].val = 8

\* C4: after forward(b) followed by backward() on a non-empty graph every
\* node's adjoint is the sum over all dependency paths from the node to the
\* last node of the product of the local partials (0 if there is no path)
C4_TotalDerivative ==
    (BackwardDone /\ rounds >= 1 /\ N > 0) =>
        \A i \in 1..N : stack[i].adj = PathSum(stack, i)

C4_Witness ==
    /\ BackwardDone
    /\ call.op = "backward"
    /\ rounds >= 1
    /\ N = 3
    /\ stack[2].kind = "mul" /\ stack[3].kind = "mul"
    /\ stack[2].deps = <<1, 1>> /\ stack[3].deps = <<1, 2>>
    /\ stack[1].val = 2
    /\ stack[1].adj = 12

\* C5: after backward() the adjoint of a node is the sum of the contributions
\* of all its consumers (plus the seed for the last node): no consumer's
\* contribution overwrites another's
C5_SumRule ==
    (BackwardDone /\ N > 0) =>
        \A p \in 1..N :
            LET E == Edges(stack, p)
            IN stack[p].adj =
                 (IF p = N THEN 1 ELSE 0)
                 + SumOver([e \in E |-> Contribution(stack, e[1], e[2])], E)

C5_Witness ==
    /\ BackwardDone
    /\ \E p \in 1..N : \E c1, c2 \in Consumers(stack, p) :
          /\ c1 < c2
          /\ \E k1, k2 \in 1..2 :
                /\ stack[c1].deps[k1] = p /\ Contribution(stack, c1, k1) > 0
                /\ stack[c2].deps[k2] = p /\ Contribution(stack, c2, k2) > 0
                /\ stack[p].adj >= Contribution(stack, c1, k1) + Contribution(stack, c2, k2)

\* C6: adjoints do not accumulate across passes: after forward; backward;
\* forward; backward with unchanged values every adjoint is what it was after
\* the first forward; backward
C6_NoAccumulation ==
    (BackwardDone /\ rounds >= 2) => Adjoints(stack) = firstAdj

C6_Witness ==
    /\ BackwardDone
    /\ rounds >= 2
    /\ N >= 2
    /\ stack[1].adj > 1

Bound(name) == \E p \in named : p[1] = name

\* C7 as stated: in any graph state add_named_node(h, name) followed by
\* graph[name] returns a handle to h's node
C7_RoundTripAlways ==
    [][(call.op = "add_named_node" /\ call'.op = "lookup" /\ call'.name = call.name)
        => (ret'.err = "" /\ ret'.node = call.node)]_vars

\* C7 amended: add_named_node(h, name) on a name that is not yet registered,
\* followed by graph[name], returns a handle to h's node
C7_RoundTripFreshName ==
    [][(call.op = "add_named_node" /\ ret.flag
        /\ call'.op = "lookup" /\ call'.name = call.name)
        => (ret'.err = "" /\ ret'.node = call.node)]_vars

C7_Witness ==
    /\ call.op = "add_named_node"
    /\ ret.flag
    /\ call.node = 2
    /\ Cardinality(named) = 2

\* C8 as stated: add_named_node(h2, name) on a registered name adds a binding
\* of name to h2
C8_RebindAddsAlias ==
    [][(call'.op = "add_named_node" /\ Bound(call'.name))
        => <<call'.name, call'.node>> \in named']_vars

\* C8 amended: add_named_node(h2, name) on a registered name leaves the
\* registry as it was: name stays bound to the handle registered first
C8_RebindIgnored ==
    [][(call'.op = "add_named_node" /\ Bound(call'.name)) => named' = named]_vars

C8_Witness ==
    /\ call.op = "add_named_node"
    /\ ~ret.flag
    /\ <<call.name, call.node>> \notin named
    /\ Bound(call.name)

\* C9: backward() or backprop() on a graph with no nodes never reaches for the
\* last element of the empty collection: every init_dependent() lands on a node
C9_EmptyGraphDefended ==
    \A j \in 1..Len(log) : log[j].f = "init_dependent" => log[j].n \in 1..N

\* C10: for a name that was never registered has_node(name) returns false
\* without failing, graph[name] fails with NameNotFound, and neither changes
\* the registry, the node collection, the input list or the parameter list
C10_MissingName ==
    [][(call'.op \in {"lookup", "has_node"} /\ ~Bound(call'.name))
        => /\ graphVars' = graphVars
           /\ call'.op = "has_node" => (ret'.err = "" /\ ret'.flag = FALSE)
           /\ call'.op = "lookup" => (ret'.err = "NameNotFound" /\ ret'.node = 0)]_vars

C10_Witness ==
    /\ call.op = "lookup"
    /\ ret.err = "NameNotFound"
    /\ named # {}
    /\ N >= 2
    /\ Len(inputs) >= 1

\* forward(b) and then backward() made as two member calls on the nodes s
ForwardThenBackward(s, b, dies) ==
    LET f == RunForward(Run(s, <<>>, ""), b, 0)
        k == RunBackward(Run(f.s, <<>>, ""), dies)
    IN Run(k.s, f.log \o k.log, k.err)

\* C11: from any graph state backprop(b) issues the per-node calls of
\* forward(b) followed by those of backward(), and leaves the nodes' values
\* and adjoints as forward(b) and then backward() leave them
C11_BackpropIsForwardThenBackward ==
    [][(pc = "idle" /\ call'.op = "backprop")
        => \E d \in Dies(stack) :
              \E r \in {ForwardThenBackward(stack, call'.arg, d)} :
                  /\ stack' = r.s
                  /\ log' = r.log
                  /\ ret'.err = r.err]_vars

C11_Witness ==
    /\ Completed({"backprop"})
    /\ N = MaxNodes
    /\ stack[N].kind = "mul"
    /\ stack[1].adj > 1
    /\ Len(log) = 4 * N + 1

Constructors == {"input", "param", "constant", "ones", "zeroes"}

\* C12: input, param, constant, ones and zeroes each append exactly one node
\* at the end of the ordered collection and leave the earlier nodes, their
\* order and their dependency lists as they were; input appends the new
\* handle to the input list only, param to the parameter list only, the
\* others to neither; none of them changes the named registry
C12_ConstructionFrame ==
    [][(call'.op \in Constructors)
        => /\ Len(stack') = Len(stack) + 1
           /\ SubSeq(stack', 1, Len(stack)) = stack
           /\ stack'[Len(stack')].deps = <<>>
           /\ ret'.node = Len(stack')
           /\ inputs' = IF call'.op = "input"
                         THEN Append(inputs, Len(stack')) ELSE inputs
           /\ params' = IF call'.op = "param"
                         THEN Append(params, Len(stack')) ELSE params
           /\ named' = named]_vars

C12_Witness ==
    /\ call.op = "param"
    /\ N = MaxNodes
    /\ params = <<2, N>>
    /\ inputs = <<1>>
    /\ named # {}
    /\ stack[1].adj > 0

\* C13: in every reachable state, whatever construction calls, traversals
\* and registry calls led to it, every dependency of a node sits at a
\* strictly smaller position of the ordered collection than the node itself
C13_TopologicalOrder ==
    \A i \in 1..N :
        \A k \in 1..Len(stack[i].deps) : stack[i].deps[k] \in 1..(i - 1)

C13_Witness ==
    /\ call.op = "lookup"
    /\ ret.err = ""
    /\ N = MaxNodes
    /\ IsOp(stack[2])
    /\ IsOp(stack[N]) /\ stack[N].deps = <<1, 2>>
    /\ stack[N].adj = 1
    /\ stack[1].adj > 1

\* C14: after backward() on a non-empty graph the adjoint of the last node is
\* exactly 1; in particular on a graph made of a single Input node x,
\* backward() leaves the adjoint of x equal to 1
C14_LastAdjointIsOne ==
    (BackwardDone /\ N > 0) =>
        /\ stack[N].adj = 1
        /\ Consumers(stack, N) = {}
        /\ (N = 1 /\ stack[1].kind = "input") => Adjoints(stack) = <<1>>

C14_Witness ==
    /\ Completed({"backward"})
    /\ N = 1
    /\ stack[1].kind = "input"
    /\ stack[1].val = MaxVal
    /\ stack[1].adj = 1
    /\ log = <<Entry("set_zero_adjoint", 1, 0), Entry("init_dependent", 1, 0),
               Entry("backward", 1, 1)>>

\* C15: for Parameters a and b holding va and vb and c = a * b constructed
\* last, backprop(1) yields c.val = va * vb, a.grad = vb and b.grad = va,
\* for every va and vb of the range
C15_Product ==
    \A va, vb \in ProductVals :
        (/\ Completed({"backprop"}) /\ call.arg = 1
         /\ N = 3
         /\ stack[1].kind = "param" /\ stack[1].val = va
         /\ stack[2].kind = "param" /\ stack[2].val = vb
         /\ stack[3].kind = "mul" /\ stack[3].deps = <<1, 2>>)
        => /\ stack[3].val = va * vb
           /\ stack[1].adj = vb
           /\ stack[2].adj = va

C15_Witness ==
    /\ Completed({"backprop"}) /\ call.arg = 1
    /\ N = 3
    /\ stack[1].kind = "param" /\ stack[1].val = 2 /\ stack[1].adj = 3
    /\ stack[2].kind = "param" /\ stack[2].val = 3 /\ stack[2].adj = 2
    /\ stack[3].kind = "mul" /\ stack[3].deps = <<1, 2>> /\ stack[3].val = 6

\* the nodes as construction leaves them: same kinds, dependencies and leaf
\* values, nothing computed, accumulated or allocated yet
Pristine(s) ==
    [i \in 1..Len(s) |->
        NewNode(s[i].kind, s[i].deps, IF IsOp(s[i]) THEN 0 ELSE s[i].val)]

FromScratch(s) ==
    RunBackward(RunForward(Run(Pristine(s), <<>>, ""), 1, 0), FALSE).s

\* C16: when a graph is evaluated, then extended, then evaluated again by
\* forward(b); backward(), every value and adjoint equals what building the
\* extended graph first and evaluating it once gives: the seed sits on the
\* new last node and the former last node keeps only what its consumers
\* contribute
C16_RecomputedFromScratch ==
    (BackwardDone /\ rounds >= 1 /\ grown) =>
        /\ \A i \in 1..N :
              /\ stack[i].val = FromScratch(stack)[i].val
              /\ stack[i].adj = FromScratch(stack)[i].adj
        /\ stack[N].adj = 1
        /\ \A i \in 1..(N - 1) : Consumers(stack, i) = {} => stack[i].adj = 0

C16_Witness ==
    /\ Completed({"backward"})
    /\ rounds >= 1
    /\ grown
    /\ N = 3
    /\ stack[2].kind = "mul" /\ stack[2].deps = <<1, 1>> /\ stack[2].adj = 0
    /\ stack[3].kind = "add" /\ stack[3].deps = <<1, 1>> /\ stack[3].adj = 1
    /\ stack[1].val = 2
    /\ stack[1].adj = 2

\* C17: assigning a tensor to the handle of an Input or Parameter node sets
\* that node's value and nothing else: no per-node call is made, no adjoint,
\* no other value and no registry changes; the next forward pass leaves the
\* assigned value in place and computes the node's consumers from it
C17_AssignSetsValueOnly ==
    [][/\ (call'.op = "assign")
            => /\ stack[call'.node].kind \in {"input", "param"}
               /\ stack'[call'.node].val = call'.arg
               /\ \A i \in 1..N :
                     /\ stack'[i].adj = stack[i].adj
                     /\ i # call'.node => stack'[i] = stack[i]
               /\ Len(stack') = N
               /\ log' = <<>>
               /\ UNCHANGED <<named, params, inputs>>
       /\ (call.op = "assign" /\ call'.op \in {"forward", "backprop"} /\ ret'.err = "")
            => /\ Entry("forward", call.node, 0) \in {log'[j] : j \in 1..Len(log')}
               /\ stack'[call.node].val = call.arg
               /\ \A c \in Consumers(stack', call.node) :
                     \E o \in 1..N :
                         /\ stack'[c].deps \in {<<call.node, o>>, <<o, call.node>>}
                         /\ stack'[c].val = IF stack'[c].kind = "add"
                                            THEN call.arg + stack'[o].val
                                            ELSE call.arg * stack'[o].val]_vars

C17_Witness ==
    /\ call.op = "assign"
    /\ stack[call.node].kind = "param"
    /\ stack[call.node].val = call.arg
    /\ stack[call.node].adj > 1
    /\ Len(params) = 1 /\ Len(inputs) = 1
    /\ \E c \in Consumers(stack, call.node) :
          /\ stack[c].val > 0
          /\ stack[c].val # OpValue(stack, c)

\* C18: when a node's allocate(batchSize) fails during forward(batchSize) or
\* backprop(batchSize), the failure reaches the caller at once: the calls
\* issued are the allocate() calls up to the failing one, each made once, and
\* no forward(), set_zero_adjoint(), init_dependent() or backward() call; no
\* value and no adjoint has changed
C18_AllocationFailurePropagates ==
    [][(call'.op \in {"forward", "backprop"} /\ ret'.err = "AllocationFailure")
        => /\ \E k \in 1..N :
                 /\ log' = [j \in 1..k |-> Entry("allocate", j, call'.arg)]
                 /\ \A i \in k..N : stack'[i] = stack[i]
           /\ Len(stack') = N
           /\ \A i \in 1..N : stack'[i] = [stack[i] EXCEPT !.alloc = stack'[i].alloc]
           /\ pc' = "idle"
           /\ UNCHANGED <<named, params, inputs>>]_vars

C18_Witness ==
    /\ call.op = "backprop"
    /\ ret.err = "AllocationFailure"
    /\ N = 3
    /\ Len(log) = 2
    /\ stack[1].alloc = 1
    /\ stack[3].alloc = 0
    /\ stack[2].adj = 1
    /\ IsOp(stack[3]) /\ stack[3].val = 0

\* C19: in a backward pass, when backward() is called on a node it has
\* already been called on every node that depends on it, and the adjoint the
\* node has at that moment is the one it has at the end of the pass
C19_AdjointFinality ==
    (BackwardDone /\ N > 0) =>
        \A i \in 1..N :
            /\ Position("backward", i) # {}
            /\ \A j \in Position("backward", i) :
                  /\ \A c \in Consumers(stack, i) :
                        \E jc \in Position("backward", c) : jc < j
                  /\ log[j].x = stack[i].adj

C19_Witness ==
    /\ BackwardDone
    /\ N = 3
    /\ Consumers(stack, 1) = {2, 3}
    /\ Consumers(stack, 2) = {3}
    /\ stack[1].adj > 2
    /\ \E j \in Position("backward", 1) : j = Len(log) /\ log[j].x = stack[1].adj

\* C20: the registry holds at most one handle per name and never gives up a
\* binding: the first add_named_node under a name binds it, later ones under
\* the same name change nothing, and graph[name] returns the handle that was
\* registered first
C20_FirstBindingKept ==
    [][/\ named \subseteq named'
       /\ \A p, q \in named' : p[1] = q[1] => p = q
       /\ (call'.op = "add_named_node" /\ ~Bound(call'.name))
            => <<call'.name, call'.node>> \in named'
       /\ (call'.op = "lookup" /\ Bound(call'.name))
            => (ret'.err = "" /\ <<call'.name, ret'.node>> \in named)]_vars

C20_Witness ==
    /\ call = Call("add_named_node", "w", 3, 0)
    /\ ~ret.flag
    /\ named = {<<"w", 1>>, <<"v", 3>>}

====
